---- MODULE Spec2Model ----
(***************************************************************************)
(* Entry lifecycle and expiry of the localhost URL shortener               *)
(* (src/shortener.py): the urls table, the upload folder, the request      *)
(* handlers that create, resolve, describe and list entries, and the       *)
(* cleanup daemon that prunes expired entries and their uploaded files.    *)
(*                                                                         *)
(* Strings are sequences of tokens: "/uploads/" is one token, a blank is   *)
(* one token, and a token of several characters holds none of the          *)
(* characters the admin filters are made of.  startswith, replace, strip   *)
(* and LIKE are computed on these sequences.                               *)
(*                                                                         *)
(* Time is counted in clock ticks of 1/TicksPerSecond second, so that      *)
(* time.time() (a float) and int(time.time()) differ.  The process starts  *)
(* on whatever urls.db and static/uploads hold: nothing, or the rows and   *)
(* the file that an earlier run wrote at second 0, whose TTL is just over  *)
(* at the start.  The requests arrive in the MaxLate seconds that follow;  *)
(* then time moves on to the end of cleanup's sleep.                       *)
(*                                                                         *)
(* Every handler is cut into steps at its accesses to the shared state     *)
(* (the table, the upload folder, the clock); a step is atomic.  Every     *)
(* sqlite3 statement of a handler commits on its own; the cleanup daemon   *)
(* keeps one connection for a whole sweep, so its DELETEs form one         *)
(* transaction that commits when the with-block ends.                      *)
(***************************************************************************)
EXTENDS Integers, Sequences, FiniteSets, TLC

\* ---- bounds of the model ------------------------------------------------
MaxThreads == 2
MaxRequests == 2
MaxUploads == 2
MaxLiveRequests == 1
MaxFaultRequests == 1
MaxSweeps == 2
MaxLate == 1
TicksPerSecond == 1

\* ---- configuration ------------------------------------------------------
DELETE_AFTER_SECONDS == 10 * 60
Interval == 60
CodeLength == 6
UPLOADS == <<"/uploads/">>

Threads == 1..MaxThreads

\* ---- inputs of the requests ---------------------------------------------
Whitespace == {" "}
\* random.choices draws from string.ascii_letters + string.digits
Alphabet == {"a", "b"}
\* the form field "code": absent, a custom path, a custom path with blanks
FormCodes == {<<>>, <<"x">>, <<" ", "x", " ">>}
\* the form field "url": absent, a web address, a string that names an upload
FormUrls == {<<>>, <<"https://e", "x", "ample.com">>,
             <<"/uploads/", "0", "_", "a.png">>}
\* file.filename: no file, a plain name, a name with a path in front
FormFiles == {<<>>, <<"a.png">>, <<"..", "/", "a.png">>}
PathSeparators == {"/"}
\* the query field "q" of /admin: absent, a filter, the filter in capitals
AdminQueries == {<<>>, <<"x">>, <<"X">>}

\* ---- strings ------------------------------------------------------------
startswith(s, p) == Len(s) >= Len(p) /\ SubSeq(s, 1, Len(p)) = p

RECURSIVE replace1(_, _, _)
replace1(s, old, new) ==
    IF Len(s) < Len(old) \/ old = <<>> THEN s
    ELSE IF SubSeq(s, 1, Len(old)) = old
         THEN new \o SubSeq(s, Len(old) + 1, Len(s))
         ELSE <<Head(s)>> \o replace1(Tail(s), old, new)

RECURSIVE lstrip(_)
lstrip(s) == IF s # <<>> /\ Head(s) \in Whitespace THEN lstrip(Tail(s)) ELSE s

RECURSIVE rstrip(_)
rstrip(s) ==
    IF s # <<>> /\ s[Len(s)] \in Whitespace
    THEN rstrip(SubSeq(s, 1, Len(s) - 1)) ELSE s

strip(s) == rstrip(lstrip(s))

\* sqlite compares the ASCII letters of LIKE without their case
lower(c) == IF c = "X" THEN "x" ELSE c

\* s LIKE pattern: % is any run of characters, _ is any one character
RECURSIVE like(_, _)
like(s, pattern) ==
    IF pattern = <<>> THEN s = <<>>
    ELSE IF Head(pattern) = "%"
         THEN like(s, Tail(pattern)) \/ (s # <<>> /\ like(Tail(s), pattern))
         ELSE /\ s # <<>>
              /\ Head(pattern) = "_" \/ lower(Head(s)) = lower(Head(pattern))
              /\ like(Tail(s), Tail(pattern))

\* LIKE ? with f"%{q}%"
contains(s, q) == like(s, <<"%">> \o q \o <<"%">>)

\* str.strip(chars)
RECURSIVE strip_chars(_, _)
strip_chars(s, chars) ==
    IF s # <<>> /\ Head(s) \in chars THEN strip_chars(Tail(s), chars)
    ELSE IF s # <<>> /\ s[Len(s)] \in chars
         THEN strip_chars(SubSeq(s, 1, Len(s) - 1), chars)
         ELSE s

\* "_".join(s.split()) of a string without blanks at its ends
RECURSIVE join_words(_)
join_words(s) ==
    IF s = <<>> THEN <<>>
    ELSE IF Head(s) \in Whitespace
         THEN IF Head(Tail(s)) \in Whitespace
              THEN join_words(Tail(s))
              ELSE <<"_">> \o join_words(Tail(s))
         ELSE <<Head(s)>> \o join_words(Tail(s))

\* werkzeug's secure_filename: path separators become blanks, the words are
\* joined with "_", dots and underscores at the ends are stripped
secure_filename(filename) ==
    LET spaced == [i \in 1..Len(filename) |->
                      IF filename[i] \in PathSeparators THEN " "
                      ELSE filename[i]]
    IN  strip_chars(join_words(strip(spaced)), {".", "..", "_"})

\* ---- state --------------------------------------------------------------
VARIABLES
    clock,    \* time.time(), in ticks
    urls,     \* the rows of table urls
    files,    \* the files of the upload folder, by name
    thr,      \* each request thread: its position and its local variables
    nreq,     \* how many requests have started (bounded by MaxRequests)
    nup,      \* how many of them were uploads (bounded by MaxUploads)
    seen,     \* history: the entries a lookup has answered "Link expired" for
    rpc,      \* the cleanup daemon's position: "sleep", "loop", "delete";
              \* "dead" when an exception has ended the thread
    rnow,     \* cleanup's local now
    expired,  \* cleanup's local expired, the part not yet visited
    cur,      \* cleanup's loop variables code, tgt
    txn,      \* codes deleted in cleanup's open transaction
    wakeAt,   \* the tick at which cleanup's time.sleep ends
    sweeps    \* how many sweeps have started (bounded by MaxSweeps)

vars == <<clock, urls, files, thr, nreq, nup, seen, rpc, rnow, expired, cur,
          txn, wakeAt, sweeps>>
reaperVars == <<rpc, rnow, expired, cur, txn, wakeAt, sweeps>>

\* int(time.time())
now_int == clock \div TicksPerSecond

\* fetchone() of a code that has no row; via records the branch of
\* upload_file that wrote a row (history, read by no handler)
None == [code |-> <<>>, target |-> <<>>, created_at |-> -1, hits |-> -1,
         rowid |-> -1, via |-> "none"]
NoEntry == [code |-> <<>>, target |-> <<>>, via |-> "none"]

Idle == [pc |-> "idle", op |-> "none", code |-> <<>>, target |-> <<>>,
         via |-> "none", row |-> None, outcome |-> "none", served |-> "none",
         expires_in |-> -1, listed |-> <<>>, filename |-> <<>>,
         stamp |-> -1]

\* ---- database helpers ---------------------------------------------------
generate_code(length) == [1..length -> Alphabet]

\* the codes that generate_code(CodeLength) is seen to return
GeneratedCodes ==
    {code \in generate_code(CodeLength) :
        \A i \in 1..CodeLength : code[i] = code[1]}

Codes == {strip(c) : c \in FormCodes \ {<<>>}} \cup GeneratedCodes

\* a variant of get_row: the SELECT leaves out the rows past their TTL
get_row_live(code) ==
    IF \E r \in urls : r.code = code
                       /\ ~(now_int - r.created_at > DELETE_AFTER_SECONDS)
    THEN CHOOSE r \in urls : r.code = code
    ELSE None

\* the rows a request sees: the committed table
get_row(code) ==
    IF \E r \in urls : r.code = code
    THEN CHOOSE r \in urls : r.code = code
    ELSE None

Max(a, b) == IF a >= b THEN a ELSE b

\* the rowid sqlite gives a new row: one more than the largest there is
next_rowid(rows) ==
    IF rows = {} THEN 1
    ELSE 1 + (CHOOSE n \in {r.rowid : r \in rows} :
                 \A r \in rows : n >= r.rowid)

\* a variant of save_mapping: an upsert that keeps the hits of the row it
\* replaces
save_mapping_keeping_hits(code, target, created_at, via) ==
    {r \in urls : r.code # code} \cup
        {[code |-> code, target |-> target, created_at |-> created_at,
          hits |-> IF \E r \in urls : r.code = code
                   THEN (CHOOSE r \in urls : r.code = code).hits ELSE 0,
          rowid |-> next_rowid(urls), via |-> via]}

\* a variant of save_mapping: the write also prunes the rows past their TTL
save_mapping_pruning(code, target, created_at, via) ==
    {r \in urls : r.code # code
                  /\ ~(now_int - r.created_at > DELETE_AFTER_SECONDS)} \cup
        {[code |-> code, target |-> target, created_at |-> created_at,
          hits |-> 0, rowid |-> next_rowid(urls), via |-> via]}

\* INSERT OR REPLACE with the created_at that save_mapping has read: the row
\* in conflict on the primary key goes, hits is 0
save_mapping(code, target, created_at, via) ==
    {r \in urls : r.code # code} \cup
        {[code |-> code, target |-> target, created_at |-> created_at,
          hits |-> 0, rowid |-> next_rowid(urls), via |-> via]}

\* a variant of seconds_left: the difference without max(0, ...)
seconds_left_unclamped(created_at) ==
    DELETE_AFTER_SECONDS - (now_int - created_at)

seconds_left(created_at) ==
    Max(0, DELETE_AFTER_SECONDS - (now_int - created_at))

\* a variant of past_ttl: the entry counts as expired at its TTL already
past_ttl_at_ttl(t, created_at) ==
    t - created_at * TicksPerSecond >= DELETE_AFTER_SECONDS * TicksPerSecond

\* time.time() - created_at > DELETE_AFTER_SECONDS, time.time() being t ticks
past_ttl(t, created_at) ==
    t - created_at * TicksPerSecond > DELETE_AFTER_SECONDS * TicksPerSecond

\* a variant of increment_hits: read, add, write back, from the row the request
\* fetched
increment_hits_from_read(t) ==
    {IF r.code = thr[t].code THEN [r EXCEPT !.hits = thr[t].row.hits + 1] ELSE r
        : r \in urls}

\* a variant of increment_hits: the UPDATE without its WHERE
increment_hits_everywhere(t) ==
    {[r EXCEPT !.hits = r.hits + 1] : r \in urls}

\* UPDATE urls SET hits = hits + 1 WHERE code = ?
increment_hits(t) ==
    {IF r.code = thr[t].code THEN [r EXCEPT !.hits = r.hits + 1] ELSE r
        : r \in urls}

\* a writer waits while cleanup's transaction holds the write lock
write_lock_free == txn = {}

\* ---- the start of the process -------------------------------------------
\* init_db is CREATE TABLE IF NOT EXISTS and makedirs has exist_ok: the rows
\* and the files of an earlier run are there, written at second 0
LeftoverFile == <<ToString(0), "_", "a.png">>

\* the row of a file upload under a custom code
LeftoverUpload ==
    [code |-> <<"x">>, target |-> UPLOADS \o LeftoverFile,
     created_at |-> 0, hits |-> 0, rowid |-> 1, via |-> "file"]

\* the row of a URL, one that names the upload, under a generated code
LeftoverUrl ==
    [code |-> [i \in 1..CodeLength |-> "a"], target |-> UPLOADS \o LeftoverFile,
     created_at |-> 0, hits |-> 0, rowid |-> 2, via |-> "url"]

\* urls.db and static/uploads at the start
Stores ==
    {[urls |-> {}, files |-> {}],
     [urls |-> {LeftoverUpload}, files |-> {LeftoverFile}],
     [urls |-> {LeftoverUpload, LeftoverUrl}, files |-> {LeftoverFile}]}

\* the second of the start: what the earlier run wrote is at its TTL
StartedAt == 0 + DELETE_AFTER_SECONDS

\* the cleanup thread is started and is about to sweep
Init ==
    /\ clock = StartedAt * TicksPerSecond
    /\ wakeAt = StartedAt * TicksPerSecond
    /\ \E store \in Stores : urls = store.urls /\ files = store.files
    /\ thr = [t \in Threads |-> Idle]
    /\ nreq = 0
    /\ nup = 0
    /\ seen = {}
    /\ rpc = "sleep"
    /\ rnow = -1
    /\ expired = <<>>
    /\ cur = NoEntry
    /\ txn = {}
    /\ sweeps = 0

\* ---- the clock ----------------------------------------------------------
Horizon == (StartedAt + MaxLate) * TicksPerSecond

Tick ==
    /\ clock < Horizon
    /\ clock' = clock + 1
    /\ UNCHANGED <<urls, files, thr, nreq, nup, seen, reaperVars>>

\* past the watched seconds, time passes until cleanup's sleep is over
SleepElapses ==
    /\ rpc = "sleep"
    /\ clock >= Horizon
    /\ clock < wakeAt
    /\ sweeps < MaxSweeps
    /\ clock' = wakeAt
    /\ UNCHANGED <<urls, files, thr, nreq, nup, seen, reaperVars>>

\* ---- the request threads ------------------------------------------------
\* a request is taken by the first thread that is free
free(t) ==
    /\ thr[t].pc = "idle"
    /\ \A u \in Threads : u < t => thr[u].pc # "idle"

\* a request arrives and thread t takes it
Arrives(t) ==
    /\ nreq < MaxRequests
    /\ clock <= Horizon
    /\ free(t)

\* a request of thread t begins with the locals rec
Begin(t, rec) ==
    /\ Arrives(t)
    /\ nreq' = nreq + 1
    /\ thr' = [thr EXCEPT ![t] = rec]

\* the request of thread t has its answer, its locals being rec
Answer(t, rec) == thr' = [thr EXCEPT ![t] = [rec EXCEPT !.pc = "done"]]

\* a request of thread t begins and has its answer in one step
BeginAnswer(t, rec) == Begin(t, [rec EXCEPT !.pc = "done"])

\* the answer is sent and the thread takes the next request
Return(t) ==
    /\ thr[t].pc = "done"
    /\ thr' = [thr EXCEPT ![t] = Idle]
    /\ UNCHANGED <<clock, urls, files, nreq, nup, seen, reaperVars>>

\* ---- GET /<code> --------------------------------------------------------
\* get_row; "Not found", 404 when there is no row
LookupStart(t, code) ==
    /\ LET row == get_row(code) IN
       IF row = None
       THEN BeginAnswer(t, [Idle EXCEPT !.op = "lookup", !.code = code,
                                        !.outcome = "NotFound"])
       ELSE Begin(t, [Idle EXCEPT !.op = "lookup", !.code = row.code,
                                  !.row = row, !.target = row.target,
                                  !.pc = "check"])
    /\ UNCHANGED <<clock, urls, files, nup, seen, reaperVars>>

\* the TTL test; "Link expired", 410 when it fails
LookupCheck(t) ==
    /\ thr[t].pc = "check"
    /\ IF past_ttl(clock, thr[t].row.created_at)
       THEN /\ Answer(t, [thr[t] EXCEPT !.outcome = "Expired"])
            /\ seen' = seen \cup {<<thr[t].code, thr[t].row.created_at>>}
       ELSE /\ thr' = [thr EXCEPT ![t].pc = "incr", ![t].outcome = "Target"]
            /\ seen' = seen
    /\ UNCHANGED <<clock, urls, files, nreq, nup, reaperVars>>

\* the hit count
LookupIncr(t) ==
    /\ thr[t].pc = "incr"
    /\ write_lock_free
    /\ urls' = increment_hits(t)
    /\ thr' = [thr EXCEPT ![t].pc = "serve"]
    /\ UNCHANGED <<clock, files, nreq, nup, seen, reaperVars>>

\* send_from_directory (404 when the file is gone) or redirect
send(target) ==
    IF startswith(target, UPLOADS)
    THEN IF replace1(target, UPLOADS, <<>>) \in files
         THEN "file" ELSE "missing"
    ELSE "redirect"

LookupServe(t) ==
    /\ thr[t].pc = "serve"
    /\ Answer(t, [thr[t] EXCEPT !.served = send(thr[t].target)])
    /\ UNCHANGED <<clock, urls, files, nreq, nup, seen, reaperVars>>

\* ---- POST /upload -------------------------------------------------------
\* code = request.form.get("code", "").strip() or generate_code()
form_code(formCode, generated) ==
    IF strip(formCode) # <<>> THEN strip(formCode) ELSE generated

\* a file and a URL, or neither: the error page, nothing is stored
UploadError(t, file, formUrl, formCode, generated) ==
    /\ nup < MaxUploads
    /\ Arrives(t)
    /\ \/ file # <<>> /\ strip(formUrl) # <<>>
       \/ file = <<>> /\ strip(formUrl) = <<>>
    /\ BeginAnswer(t, [Idle EXCEPT !.op = "upload",
                                   !.code = form_code(formCode, generated),
                                   !.outcome = IF file # <<>> THEN "ErrorBoth"
                                                            ELSE "ErrorNone"])
    /\ nup' = nup + 1
    /\ UNCHANGED <<clock, urls, files, seen, reaperVars>>

\* a file only: its name is the time and the secured name
UploadFile(t, file, formUrl, formCode, generated) ==
    /\ nup < MaxUploads
    /\ Arrives(t)
    /\ file # <<>> /\ strip(formUrl) = <<>>
    /\ Begin(t, [Idle EXCEPT !.op = "upload", !.pc = "write", !.via = "file",
                             !.code = form_code(formCode, generated),
                             !.filename = <<ToString(now_int), "_">>
                                             \o secure_filename(file)])
    /\ nup' = nup + 1
    /\ UNCHANGED <<clock, urls, files, seen, reaperVars>>

\* file.save(path)
UploadWrite(t) ==
    /\ thr[t].pc = "write"
    /\ files' = files \cup {thr[t].filename}
    /\ thr' = [thr EXCEPT ![t].pc = "stamp",
                          ![t].target = UPLOADS \o thr[t].filename]
    /\ UNCHANGED <<clock, urls, nreq, nup, seen, reaperVars>>

\* save_mapping of the file branch reads the clock
UploadStamp(t) ==
    /\ thr[t].pc = "stamp"
    /\ thr' = [thr EXCEPT ![t].pc = "save", ![t].stamp = now_int]
    /\ UNCHANGED <<clock, urls, files, nreq, nup, seen, reaperVars>>

\* a URL only: save_mapping reads the clock
UploadUrl(t, file, formUrl, formCode, generated) ==
    /\ nup < MaxUploads
    /\ Arrives(t)
    /\ file = <<>> /\ strip(formUrl) # <<>>
    /\ Begin(t, [Idle EXCEPT !.op = "upload", !.pc = "save", !.via = "url",
                             !.code = form_code(formCode, generated),
                             !.target = strip(formUrl),
                             !.stamp = now_int])
    /\ nup' = nup + 1
    /\ UNCHANGED <<clock, urls, files, seen, reaperVars>>

\* save_mapping writes the row, once the write lock is free, and the page
\* shows the short link
UploadSave(t) ==
    /\ thr[t].pc = "save"
    /\ write_lock_free
    /\ urls' = save_mapping(thr[t].code, thr[t].target, thr[t].stamp,
                            thr[t].via)
    /\ Answer(t, [thr[t] EXCEPT !.outcome = "Saved"])
    /\ UNCHANGED <<clock, files, nreq, nup, seen, reaperVars>>

\* ---- GET /api/metadata/<code> -------------------------------------------
\* get_row; 404 when there is no row
MetadataStart(t, code) ==
    /\ LET row == get_row(code)
           req == [Idle EXCEPT !.op = "metadata", !.code = code]
       IN  IF row = None
           THEN BeginAnswer(t, [req EXCEPT !.outcome = "NotFound"])
           ELSE Begin(t, [req EXCEPT !.row = row, !.target = row.target,
                                     !.pc = "left"])
    /\ UNCHANGED <<clock, urls, files, nup, seen, reaperVars>>

\* seconds_left reads the clock; the answer is made of it and of the row
MetadataAnswer(t) ==
    /\ thr[t].pc = "left"
    /\ Answer(t, [thr[t] EXCEPT
                     !.outcome = "Found",
                     !.expires_in = seconds_left(thr[t].row.created_at)])
    /\ UNCHANGED <<clock, urls, files, nreq, nup, seen, reaperVars>>

\* ---- GET /admin ---------------------------------------------------------
\* ORDER BY created_at DESC, as the codes of the rows; rows of one created_at
\* come in the order they were written
RECURSIVE order_desc(_)
order_desc(rows) ==
    IF rows = {} THEN <<>>
    ELSE LET first == CHOOSE r \in rows :
                          \A o \in rows :
                              \/ r.created_at > o.created_at
                              \/ /\ r.created_at = o.created_at
                                 /\ r.rowid <= o.rowid
         IN  <<first.code>> \o order_desc(rows \ {first})

\* the rows of the table, or those whose code or target is LIKE the filter
Admin(t, q) ==
    /\ LET rows == IF strip(q) # <<>>
                   THEN {r \in urls : \/ contains(r.code, strip(q))
                                      \/ contains(r.target, strip(q))}
                   ELSE urls
       IN  BeginAnswer(t, [Idle EXCEPT !.op = "admin", !.outcome = "Listed",
                                       !.listed = order_desc(rows)])
    /\ UNCHANGED <<clock, urls, files, nup, seen, reaperVars>>

\* ---- the cleanup daemon -------------------------------------------------
\* the code, target pairs of rows, as a scan of the table yields them
RECURSIVE fetchall(_)
fetchall(rows) ==
    IF rows = {} THEN <<>>
    ELSE LET first == CHOOSE r \in rows : \A o \in rows : r.rowid <= o.rowid
         IN  <<[code |-> first.code, target |-> first.target,
                via |-> first.via]>> \o fetchall(rows \ {first})

\* a variant of find_expired: fetchone in place of fetchall
find_expired_one(n) ==
    LET all == fetchall({x \in urls : n - x.created_at > DELETE_AFTER_SECONDS})
    IN  IF all = <<>> THEN <<>> ELSE <<Head(all)>>

\* a variant of find_expired: the difference taken the other way round
find_expired_reversed(n) ==
    fetchall({x \in urls : x.created_at - n > DELETE_AFTER_SECONDS})

\* SELECT code, target FROM urls WHERE ? - created_at > ?
find_expired(n) ==
    fetchall({x \in urls : n - x.created_at > DELETE_AFTER_SECONDS})

\* now is read and the expired rows are fetched
ReaperQuery ==
    /\ rpc = "sleep"
    /\ clock >= wakeAt
    /\ sweeps < MaxSweeps
    /\ sweeps' = sweeps + 1
    /\ rnow' = now_int
    /\ expired' = find_expired(now_int)
    /\ rpc' = "loop"
    /\ UNCHANGED <<clock, urls, files, thr, nreq, nup, seen, cur, txn, wakeAt>>

\* the file of an /uploads/ target is removed when it is there
remove_artifact(tgt) ==
    IF startswith(tgt, UPLOADS)
    THEN files \ {replace1(tgt, UPLOADS, <<>>)}
    ELSE files

\* the loop takes the next of the expired rows
ReaperRemove ==
    /\ rpc = "loop"
    /\ expired # <<>>
    /\ cur' = Head(expired)
    /\ files' = remove_artifact(Head(expired).target)
    /\ rpc' = "delete"
    /\ UNCHANGED <<clock, urls, thr, nreq, nup, seen, rnow, expired, txn,
                   wakeAt, sweeps>>

\* DELETE FROM urls WHERE code = ?, in the sweep's transaction
ReaperDelete ==
    /\ rpc = "delete"
    /\ txn' = txn \cup {cur.code}
    /\ expired' = Tail(expired)
    /\ cur' = NoEntry
    /\ rpc' = "loop"
    /\ UNCHANGED <<clock, urls, files, thr, nreq, nup, seen, rnow, wakeAt,
                   sweeps>>

\* a variant of committed: the transaction is not committed
committed_nothing(rows, deleted) == rows

\* the rows left when the transaction commits
committed(rows, deleted) == {r \in rows : r.code \notin deleted}

\* the with-block ends: commit; then time.sleep(interval)
ReaperCommit ==
    /\ rpc = "loop"
    /\ expired = <<>>
    /\ urls' = committed(urls, txn)
    /\ txn' = {}
    /\ wakeAt' = clock + Interval * TicksPerSecond
    /\ rpc' = "sleep"
    /\ UNCHANGED <<clock, files, thr, nreq, nup, seen, rnow, expired, cur,
                   sweeps>>

Reaper ==
    \/ ReaperQuery
    \/ ReaperRemove
    \/ ReaperDelete
    \/ ReaperCommit

\* ---- the system ---------------------------------------------------------
\* an answer is sent before anything else happens
Answering == \E t \in Threads : thr[t].pc = "done"

Request ==
    \/ \E t \in Threads, code \in Codes : LookupStart(t, code)
    \/ \E t \in Threads : LookupCheck(t)
    \/ \E t \in Threads : LookupIncr(t)
    \/ \E t \in Threads : LookupServe(t)
    \/ \E t \in Threads, file \in FormFiles, formUrl \in FormUrls,
          formCode \in FormCodes, generated \in GeneratedCodes :
            \/ UploadError(t, file, formUrl, formCode, generated)
            \/ UploadFile(t, file, formUrl, formCode, generated)
            \/ UploadUrl(t, file, formUrl, formCode, generated)
    \/ \E t \in Threads : UploadWrite(t)
    \/ \E t \in Threads : UploadStamp(t)
    \/ \E t \in Threads : UploadSave(t)
    \/ \E t \in Threads, code \in Codes : MetadataStart(t, code)
    \/ \E t \in Threads : MetadataAnswer(t)
    \/ \E t \in Threads, q \in AdminQueries : Admin(t, q)

Next ==
    \/ ~Answering /\ (Tick \/ SleepElapses \/ Request \/ Reaper)
    \/ \E t \in Threads : Return(t)

Spec == Init /\ [][Next]_vars

TypeOK ==
    /\ clock \in Nat
    /\ \A r \in urls : r.hits \in Nat /\ r.created_at \in Nat
    /\ rpc \in {"sleep", "loop", "delete", "dead"}

\* ---- failures -----------------------------------------------------------
\* cleanup has no handler around its database calls: an sqlite3 error rolls
\* the transaction back at the end of the with-block, leaves the while loop
\* and ends the thread
after_store_error == "dead"

\* a variant of after_remove_error: the error of os.remove is raised again
after_remove_error_raised == "dead"

\* except Exception: pass -- the loop body goes on with the DELETE
after_remove_error == "delete"

\* connect or the SELECT raises
ReaperQueryFails ==
    /\ rpc = "sleep"
    /\ clock >= wakeAt
    /\ sweeps < MaxSweeps
    /\ sweeps' = sweeps + 1
    /\ rnow' = now_int
    /\ rpc' = after_store_error
    /\ UNCHANGED <<clock, urls, files, thr, nreq, nup, seen, expired, cur,
                   txn, wakeAt>>

\* os.remove of a file that is there raises
ReaperRemoveFails ==
    /\ rpc = "loop"
    /\ expired # <<>>
    /\ startswith(Head(expired).target, UPLOADS)
    /\ replace1(Head(expired).target, UPLOADS, <<>>) \in files
    /\ cur' = Head(expired)
    /\ rpc' = after_remove_error
    /\ UNCHANGED <<clock, urls, files, thr, nreq, nup, seen, rnow, expired,
                   txn, wakeAt, sweeps>>

\* the DELETE raises: the DELETEs of the sweep so far are rolled back
ReaperDeleteFails ==
    /\ rpc = "delete"
    /\ txn' = {}
    /\ rpc' = after_store_error
    /\ UNCHANGED <<clock, urls, files, thr, nreq, nup, seen, rnow, expired,
                   cur, wakeAt, sweeps>>

\* the commit raises
ReaperCommitFails ==
    /\ rpc = "loop"
    /\ expired = <<>>
    /\ txn' = {}
    /\ rpc' = after_store_error
    /\ UNCHANGED <<clock, urls, files, thr, nreq, nup, seen, rnow, expired,
                   cur, wakeAt, sweeps>>

\* the UPDATE of redirect_code raises: the view has no handler, the answer is
\* the server's error page (500)
LookupIncrFails(t) ==
    /\ thr[t].pc = "incr"
    /\ Answer(t, [thr[t] EXCEPT !.outcome = "Error"])
    /\ UNCHANGED <<clock, urls, files, nreq, nup, seen, reaperVars>>

Faults ==
    \/ ReaperQueryFails
    \/ ReaperRemoveFails
    \/ ReaperDeleteFails
    \/ ReaperCommitFails
    \/ \E t \in Threads : LookupIncrFails(t)

\* the runs with failures take MaxFaultRequests requests
FaultNext ==
    /\ \/ Next
       \/ ~Answering /\ Faults
    /\ nreq' <= MaxFaultRequests

FaultSpec == Init /\ [][FaultNext]_vars

\* ======== the claims =====================================================
TTLTicks == DELETE_AFTER_SECONDS * TicksPerSecond

\* thread t takes the step of get_row of a lookup
LookupReads(t) == thr[t].pc = "idle" /\ thr'[t].op = "lookup"
\* thread t takes the step of the TTL test of a lookup
LookupTests(t) == thr[t].pc = "check" /\ thr'[t].pc # "check"
\* thread t takes the step of the UPDATE of a lookup
LookupCounts(t) == thr[t].pc = "incr" /\ thr'[t].pc = "serve"
\* thread t takes the step of save_mapping of code c
Saves(t, c) ==
    thr[t].outcome # "Saved" /\ thr'[t].outcome = "Saved" /\ thr'[t].code = c

\* C1: a lookup answers NotFound exactly when the table has no row of the
\* code when it reads; it answers Expired exactly when the row it read has
\* now - created_at > TTL at its TTL test, and Target otherwise; the Expired
\* answer is given while the row is still in the table, which it leaves as
\* it is.
C1_LookupOutcome ==
    [][\A t \in Threads :
        /\ LookupReads(t) =>
              IF \E r \in urls : r.code = thr'[t].code
              THEN /\ thr'[t].pc = "check"
                   /\ thr'[t].row \in urls
                   /\ thr'[t].outcome = "none"
              ELSE /\ thr'[t].pc = "done"
                   /\ thr'[t].outcome = "NotFound"
        /\ LookupTests(t) =>
              IF clock - thr[t].row.created_at * TicksPerSecond > TTLTicks
              THEN /\ thr'[t].pc = "done"
                   /\ thr'[t].outcome = "Expired"
                   /\ urls' = urls
              ELSE /\ thr'[t].pc = "incr"
                   /\ thr'[t].outcome = "Target"
                   /\ thr'[t].target = thr[t].row.target
        /\ (thr'[t].op = "lookup" /\ thr'[t].outcome # thr[t].outcome) =>
              LookupReads(t) \/ LookupTests(t)
      ]_vars

\* a lookup one second past the TTL answers Expired for a row the sweep has
\* not deleted
C1_ExpiredUnreaped ==
    \E t \in Threads :
        /\ thr[t].pc = "done" /\ thr[t].op = "lookup"
        /\ thr[t].outcome = "Expired"
        /\ thr[t].row \in urls
        /\ clock = (thr[t].row.created_at + DELETE_AFTER_SECONDS + 1)
                       * TicksPerSecond

\* C2: when a creation of code c with target t2 answers, after an earlier
\* creation of c and lookups of it, the table holds exactly one row of c,
\* and get_row(c) has target t2, hits 0 and created_at the second that this
\* creation's save_mapping read from the clock, which is not in the future.
C2_ReplaceResets ==
    \A t \in Threads :
        (thr[t].pc = "done" /\ thr[t].outcome = "Saved") =>
            /\ Cardinality({r \in urls : r.code = thr[t].code}) = 1
            /\ get_row(thr[t].code).target = thr[t].target
            /\ get_row(thr[t].code).hits = 0
            /\ get_row(thr[t].code).created_at = thr[t].stamp
            /\ thr[t].stamp <= now_int
            /\ thr[t].stamp >= StartedAt

\* a code is created again, with another target, after a lookup of it has
\* counted a hit
C2_ReplacedAfterHit ==
    \E t, u \in Threads :
        /\ thr[t].pc = "done" /\ thr[t].outcome = "Saved"
        /\ thr[u].pc = "serve" /\ thr[u].code = thr[t].code
        /\ thr[u].target # thr[t].target
        /\ get_row(thr[t].code).hits = 0

\* C3: every lookup that answers Target adds exactly one to the hits of its
\* code's row as the table holds it at that step, whatever other lookups are
\* under way, and changes nothing else of the table: N such lookups add N.
C3_NoLostHit ==
    [][\A t \in Threads :
        LookupCounts(t) =>
            /\ \A r \in urls : r.code = thr[t].code =>
                  [r EXCEPT !.hits = r.hits + 1] \in urls'
            /\ \A r \in urls : r.code # thr[t].code => r \in urls'
            /\ Cardinality(urls') = Cardinality(urls)
      ]_vars

\* two lookups of one code read the same row, and both have counted
C3_TwoConcurrentHits ==
    \E t, u \in Threads :
        /\ t # u
        /\ thr[t].pc = "serve" /\ thr[u].pc = "serve"
        /\ thr[t].row = thr[u].row
        /\ \E r \in urls :
              /\ r.code = thr[t].code
              /\ r.created_at = thr[t].row.created_at
              /\ r.hits = thr[t].row.hits + 2

\* C4, as stated: the hits of a code that has a row before and after a step
\* never decrease.
C4_HitsNeverDecrease ==
    [][\A r \in urls, s \in urls' : r.code = s.code => s.hits >= r.hits]_vars

\* C4, amended: the hits of a code that has a row before and after a step
\* stay, or grow by one in the counting step of a lookup of that code that
\* answers Target, or become 0 in a step that creates the code again; a
\* lookup that answers Expired or NotFound leaves the table as it is.
C4_HitsStep ==
    [][/\ \A r \in urls, s \in urls' : r.code = s.code =>
            \/ s.hits = r.hits
            \/ /\ s.hits = r.hits + 1
               /\ \E t \in Threads :
                     /\ LookupCounts(t)
                     /\ thr[t].code = r.code
                     /\ thr[t].outcome = "Target"
            \/ /\ s.hits = 0
               /\ \E t \in Threads : Saves(t, r.code)
       /\ \A t \in Threads :
            (/\ thr'[t].op = "lookup"
             /\ thr'[t].outcome \in {"Expired", "NotFound"}
             /\ thr'[t].outcome # thr[t].outcome) => urls' = urls
      ]_vars

\* a lookup answers Expired for a row whose hit another lookup, that answered
\* Target, has counted
C4_ExpiredAfterHit ==
    \E t, u \in Threads :
        /\ thr[t].pc = "done" /\ thr[t].outcome = "Expired"
        /\ thr[u].pc = "serve" /\ thr[u].code = thr[t].code
        /\ thr[t].row.hits = thr[u].row.hits + 1
        /\ thr[t].row \in urls

\* the sweep takes the step of its query
SweepQueries == rpc = "sleep" /\ rpc' = "loop"
\* the sweep takes the step of its commit
SweepCommits == rpc = "loop" /\ rpc' = "sleep"
\* row r is past its TTL for a sweep whose now is n
PastTTL(r, n) == n - r.created_at > DELETE_AFTER_SECONDS
\* the file a target under /uploads/ names
Artifact(target) == replace1(target, UPLOADS, <<>>)

\* C5, as stated: when a sweep has run to its commit, the table holds no row
\* that was past its TTL at the sweep's now, and the file of every row with a
\* target under /uploads/ that the sweep deleted is not in the upload folder.
C5_SweepComplete ==
    [][SweepCommits =>
        /\ \A r \in urls' : ~PastTTL(r, rnow)
        /\ \A r \in urls :
              (/\ ~\E s \in urls' : s.code = r.code
               /\ startswith(r.target, UPLOADS))
                 => Artifact(r.target) \notin files'
      ]_vars

\* C6: when a sweep follows a finished sweep and no row is past its TTL now
\* that was not past it at the first sweep's now, the second sweep finds
\* nothing, and its commit leaves the table and the upload folder as they
\* were.
C6_SecondSweepNoOp ==
    [][/\ (/\ SweepQueries
           /\ sweeps >= 1
           /\ \A r \in urls : PastTTL(r, now_int) => PastTTL(r, rnow))
              => expired' = <<>> /\ files' = files /\ urls' = urls
       /\ (SweepCommits /\ txn = {}) => files' = files /\ urls' = urls
       /\ (rpc = "loop" /\ rpc' = "delete") => expired # <<>>
      ]_vars

\* a second sweep finds nothing after a first sweep has emptied the table of
\* an entry that lookups found expired
C6_SecondSweepEmpty ==
    /\ sweeps = 2 /\ rpc = "loop" /\ expired = <<>> /\ txn = {}
    /\ seen # {}
    /\ urls = {}
    /\ \A t \in Threads : thr[t].pc = "idle"

\* code c has a row past its TTL
ExpiredRow(c) == \E r \in urls : r.code = c /\ PastTTL(r, now_int)

\* the daemon's loop goes on, time passes, and answers are sent
Fairness ==
    /\ WF_vars(~Answering /\ Reaper)
    /\ WF_vars(~Answering /\ (Tick \/ SleepElapses))
    /\ \A t \in Threads : WF_vars(Return(t))

\* the runs checked for what eventually happens take MaxLiveRequests requests
LiveNext == Next /\ nreq' <= MaxLiveRequests

LiveSpec == Init /\ [][LiveNext]_vars /\ Fairness

\* C7: when a code has a row past its TTL, then later the code has no such
\* row: the sweep has deleted it, unless the code was created again.
C7_ExpiredRemoved ==
    \A c \in Codes : ExpiredRow(c) ~> ~ExpiredRow(c)

\* a sweep has deleted a row that a lookup found expired, and the code was
\* not created again
C7_Removed ==
    /\ sweeps >= 1 /\ rpc = "sleep"
    /\ \E e \in seen : ~\E r \in urls : r.code = e[1]
    /\ nup = 0

\* C8: no lookup answers Target for an entry for which a lookup has answered
\* Expired; and when a finished sweep, whose now the entry was past its TTL
\* for, is over and the code was not created again, every lookup and every
\* metadata request of the code that begins answers NotFound.
C8_OutcomeOrder ==
    [][\A t \in Threads :
        /\ (LookupTests(t) /\ thr'[t].outcome = "Target") =>
              <<thr[t].code, thr[t].row.created_at>> \notin seen
        /\ \A e \in seen :
              (/\ thr[t].pc = "idle"
               /\ thr'[t].op \in {"lookup", "metadata"}
               /\ thr'[t].code = e[1]
               /\ rpc = "sleep" /\ sweeps >= 1
               /\ PastTTL([created_at |-> e[2]], rnow)
               /\ \A r \in urls : r.code = e[1] => r.created_at = e[2])
                 => thr'[t].outcome = "NotFound"
      ]_vars

\* a lookup answers NotFound for a code that a lookup answered Expired for
\* before the sweep
C8_NotFoundAfterExpired ==
    \E t \in Threads :
        /\ thr[t].pc = "done" /\ thr[t].op = "lookup"
        /\ thr[t].outcome = "NotFound"
        /\ \E e \in seen : e[1] = thr[t].code /\ PastTTL([created_at |-> e[2]], rnow)
        /\ rpc = "sleep" /\ sweeps >= 1

\* C9, as stated: when the sweep visits a row that the URL branch of
\* upload_file wrote, the upload folder stays as it is.
C9_UrlEntryKeepsFiles ==
    [][(rpc = "loop" /\ rpc' = "delete" /\ cur'.via = "url")
          => files' = files]_vars

\* C10, as stated: every row whose code leaves the table in a step is past
\* its TTL at that moment.
C10_DeletesOnlyExpired ==
    [][\A r \in urls :
          (~\E s \in urls' : s.code = r.code) => PastTTL(r, now_int)]_vars

\* C11, as stated: a database error in a sweep does not end the daemon's
\* loop.
C11_ReaperSurvives == rpc # "dead"

\* C12: the sweep goes on to the DELETE of every row it visits, whether
\* os.remove removed the file, raised, or the file was not there; the DELETE
\* puts the row's code among the deleted, the sweep goes on with the rows
\* left, and after the commit no deleted code has a row.
C12_RemovalNeverBlocks ==
    [][/\ (rpc = "loop" /\ cur' # NoEntry) =>
              rpc' = "delete" /\ cur' = Head(expired) /\ urls' = urls
       /\ (rpc = "delete" /\ rpc' = "loop") =>
              cur.code \in txn' /\ expired' = Tail(expired)
       /\ SweepCommits => \A r \in urls' : r.code \notin txn
      ]_vars

\* a sweep has deleted the entries there were, a file upload among them, and
\* the file is still in the upload folder: os.remove had raised
C12_DeletedThoughFileStays ==
    /\ rpc = "sleep" /\ sweeps >= 1
    /\ nup = 0
    /\ urls = {}
    /\ files # {}
    /\ \A t \in Threads : thr[t].pc = "idle"

\* C13, as stated: a lookup that has passed the TTL test answers Target also
\* when its UPDATE fails.
C13_IncrementFailureAbsorbed ==
    [][\A t \in Threads : thr[t].pc = "incr" => thr'[t].outcome = "Target"]_vars

\* C20, as stated: when a database error ends a sweep at the DELETE of a row,
\* that row is not left in the table with its file removed.
C20_AbortKeepsPairs ==
    [][(rpc = "delete" /\ rpc' = "dead") =>
          ~(/\ startswith(cur.target, UPLOADS)
            /\ Artifact(cur.target) \notin files'
            /\ \E r \in urls' : r.code = cur.code /\ r.target = cur.target)
      ]_vars

\* the codes that have a row
StoreCodes(rows) == {r.code : r \in rows}

\* C14: in a step that is not the daemon's, no code leaves the table and no
\* file leaves the upload folder; a file leaves only in the sweep's removal
\* step and a code only in the sweep's commit.
C14_OnlyReaperDeletes ==
    [][/\ UNCHANGED reaperVars =>
            /\ StoreCodes(urls) \subseteq StoreCodes(urls')
            /\ files \subseteq files'
       /\ ~(files \subseteq files') => rpc = "loop" /\ rpc' = "delete"
       /\ ~(StoreCodes(urls) \subseteq StoreCodes(urls')) => SweepCommits
      ]_vars

\* a creation answers while another code's row is past its TTL and the
\* upload folder has a file: both are still there
C14_CreationKeepsExpired ==
    \E t \in Threads :
        /\ thr[t].pc = "done" /\ thr[t].outcome = "Saved"
        /\ files # {}
        /\ \E r \in urls : r.code # thr[t].code /\ PastTTL(r, now_int)

\* C15, as stated: the TTL test of a lookup answers Expired exactly when
\* seconds_left of the row is 0.
C15_AgreesWithSecondsLeft ==
    [][\A t \in Threads :
          LookupTests(t) =>
              (thr'[t].outcome = "Expired"
                  <=> seconds_left(thr[t].row.created_at) = 0)]_vars

\* C15, amended: the TTL test answers Expired exactly when seconds_left of
\* the row is 0 and now - created_at is not TTL itself; at now - created_at
\* = TTL seconds_left is 0 and the answer is Target; whenever seconds_left is
\* positive the answer is Target.
C15_SecondsLeftAndOutcome ==
    [][\A t \in Threads :
          LookupTests(t) =>
              LET left == seconds_left(thr[t].row.created_at)
                  age  == clock - thr[t].row.created_at * TicksPerSecond
              IN  /\ thr'[t].outcome = "Expired" <=> (left = 0 /\ age # TTLTicks)
                  /\ age = TTLTicks => left = 0 /\ thr'[t].outcome = "Target"
                  /\ left > 0 => thr'[t].outcome = "Target"
                  /\ left >= 0
      ]_vars

\* a lookup passes the TTL test at now - created_at = TTL, seconds_left of
\* its row being 0
C15_TargetAtZeroLeft ==
    \E t \in Threads :
        /\ thr[t].pc = "incr" /\ thr[t].outcome = "Target"
        /\ seconds_left(thr[t].row.created_at) = 0
        /\ clock - thr[t].row.created_at * TicksPerSecond = TTLTicks

\* thread t takes the step of get_row of a metadata request
MetadataReads(t) == thr[t].pc = "idle" /\ thr'[t].op = "metadata"
\* thread t takes the step of seconds_left of a metadata request
MetadataAnswers(t) == thr[t].pc = "left" /\ thr'[t].pc = "done"

\* C16: a metadata request answers NotFound exactly when the code has no
\* row as it reads; otherwise it goes on, whatever the row's age, and answers
\* with the target, created_at and hits of the row it read, expires_in being
\* max(0, TTL - (now - created_at)) as it answers, which is 0 for a row past
\* its TTL.
C16_GetIgnoresTTL ==
    [][\A t \in Threads :
        /\ MetadataReads(t) =>
              IF \E r \in urls : r.code = thr'[t].code
              THEN /\ thr'[t].pc = "left"
                   /\ thr'[t].row \in urls
                   /\ thr'[t].row.code = thr'[t].code
                   /\ thr'[t].target = thr'[t].row.target
              ELSE /\ thr'[t].pc = "done"
                   /\ thr'[t].outcome = "NotFound"
        /\ MetadataAnswers(t) =>
              /\ thr'[t].outcome = "Found"
              /\ thr'[t].row = thr[t].row
              /\ thr'[t].target = thr[t].row.target
              /\ thr'[t].expires_in =
                    Max(0, DELETE_AFTER_SECONDS
                             - (now_int - thr[t].row.created_at))
              /\ PastTTL(thr[t].row, now_int) => thr'[t].expires_in = 0
      ]_vars

\* a metadata request answers with a row past its TTL that the sweep has not
\* deleted, expires_in being 0
C16_ExpiredRowReturned ==
    \E t \in Threads :
        /\ thr[t].pc = "done" /\ thr[t].op = "metadata"
        /\ thr[t].outcome = "Found"
        /\ PastTTL(thr[t].row, now_int)
        /\ thr[t].row \in urls
        /\ thr[t].expires_in = 0

\* C17, as stated: the counting step of a lookup that read an entry of its
\* code which the code's row no longer is leaves that row as it is.
C17_StaleLookupCountsNothing ==
    [][\A t \in Threads :
          LookupCounts(t) =>
              \A r \in urls :
                  (/\ r.code = thr[t].code
                   /\ \/ r.target # thr[t].row.target
                      \/ r.created_at # thr[t].row.created_at)
                     => r \in urls']_vars

\* C18, as stated: a lookup of a file upload's entry that has passed the TTL
\* test finds the file in the upload folder when it serves it.
C18_FileThereAtServe ==
    \A t \in Threads :
        (/\ thr[t].pc = "done" /\ thr[t].op = "lookup"
         /\ thr[t].outcome = "Target"
         /\ thr[t].row.via = "file") => thr[t].served = "file"

\* C19, as stated: when no request and no sweep is under way, every file of
\* the upload folder is the target of some row, and the file of every row of
\* a file upload that is not past its TTL is in the upload folder.
C19_NoOrphans ==
    (rpc = "sleep" /\ \A t \in Threads : thr[t].pc = "idle") =>
        /\ \A f \in files : \E r \in urls : r.target = UPLOADS \o f
        /\ \A r \in urls :
              (r.via = "file" /\ ~PastTTL(r, now_int))
                 => Artifact(r.target) \in files
====
